---- MODULE Spec2Model ----
(***************************************************************************)
(* Model of src/python_sql_connector.py: class SQLConnector, a helper that *)
(* holds at most one psycopg2 connection and runs SQL statements on it.    *)
(*                                                                         *)
(* The database driver (psycopg2) and pandas are external collaborators.   *)
(* Every call the component makes on them is recorded, in program order,   *)
(* in `trace` (the calls of the most recent operation), together with what *)
(* the collaborator returned or raised.  The driver's answers are inputs:  *)
(* connect, connection.close, cursor.execute, connection.commit and the    *)
(* fetch calls may raise; connection.cursor, connection.rollback,          *)
(* cursor.close, cursor.description and the connection's context manager   *)
(* do not raise (the driver contract the component is written against).    *)
(***************************************************************************)
EXTENDS Integers, Sequences, FiniteSets

(* ------------------------------- bounds -------------------------------- *)

\* number of driver connect() calls explored
MaxConnects == 2
\* largest result set the driver hands back
MaxRows == 2

(* ------------------------------- inputs -------------------------------- *)

\* the attribute self.connection is absent
NoConn == 0

\* keyword arguments of open_connection
Configs ==
    { [database |-> "db1", user |-> "alice", password |-> "pw1", host |-> "h1", port |-> "5432"],
      [database |-> "db2", user |-> "bob", password |-> "pw2", host |-> "h2", port |-> "5433"] }

\* the attributes database, user, password, host, port are absent
NoConfig == [database |-> "", user |-> "", password |-> "", host |-> "", port |-> ""]

\* the SQL text is handed to cursor.execute and not looked at otherwise
Queries == {"SELECT * FROM t"}

\* values of the fetch argument: the two accepted ones and another one
FetchModes == {"one", "all", "many"}

\* the cells of a result row, of which a row takes one per column
RowCells == {<<"a", "b">>, <<"b", "a">>}

\* cursor.description: one tuple per column, whose item 0 is the column name
Descriptions ==
    { << <<"id", "int4">> >>,
      << <<"id", "int4">>, <<"name", "text">> >>,
      << <<"id", "int4">>, <<"id", "text">> >> }

\* exceptions the driver raises
DriverErrors == {"OperationalError", "ProgrammingError"}

NoError == [type |-> "", msg |-> ""]

AssertionError(msg) == [type |-> "AssertionError", msg |-> msg]

DriverError(e) == [type |-> e, msg |-> "driver"]

\* what a driver call does: returns (NoError) or raises a driver error
DriverOutcomes == {NoError} \cup {DriverError(e) : e \in DriverErrors}

\* a row as the driver returns it (a tuple)
Tuple(vals) == [kind |-> "tuple", vals |-> vals]

SeqsUpTo(S, n) == UNION {[1..k -> S] : k \in 0..n}

\* the result sets a statement with the given description can produce
ResultSets(description) ==
    SeqsUpTo({Tuple(SubSeq(c, 1, Len(description))) : c \in RowCells}, MaxRows)

(* ---------------------------- external calls --------------------------- *)

\* one call on a collaborator: the method, the connection it is made on,
\* its arguments, what it raised (NoError: it returned) and what it returned
Call(call, obj, arg, exc, ret) ==
    [call |-> call, obj |-> obj, arg |-> arg, exc |-> exc, ret |-> ret]

(* ------------------------------- values -------------------------------- *)

NoCursor == [conn |-> NoConn, state |-> "none"]

OpenCursor(conn) == [conn |-> conn, state |-> "open"]

CloseCursor(cursor) == [cursor EXCEPT !.state = "closed"]

NoResults == [kind |-> "None", columns |-> <<>>, items |-> <<>>]

PyList(items) == [kind |-> "list", columns |-> <<>>, items |-> items]

\* what a call hands to its caller
Raised == [shape |-> "raised", results |-> NoResults, cursor |-> NoCursor]

ReturnNone == [shape |-> "None", results |-> NoResults, cursor |-> NoCursor]

ReturnCursor(cursor) == [shape |-> "cursor", results |-> NoResults, cursor |-> cursor]

ReturnResults(results) == [shape |-> "results", results |-> results, cursor |-> NoCursor]

ReturnPair(results, cursor) == [shape |-> "pair", results |-> results, cursor |-> cursor]

(* ------------------------- _check_connection --------------------------- *)

\* hasattr(self, "connection")
hasattr_connection(conn) == conn # NoConn

\* a decorator that lets every call through
check_connection_always(conn) == TRUE

\* the decorator's assert: TRUE when the wrapped method may run
check_connection(conn) == hasattr_connection(conn)

NoConnectionError == AssertionError("there is no open connection.")

(* --------------------------- close_connection -------------------------- *)

\* the state of the handle fields after a method, the calls it made and
\* the exception it raised
Effect(conn, lv, tr, err) == [connection |-> conn, live |-> lv, trace |-> tr, error |-> err]

CloseCall(conn, closeExc) == Call("connection.close", conn, <<>>, closeExc, <<>>)

\* a close_connection without del self.connection: the closed handle stays
\* stored
close_connection_keeping(conn, lv, closeExc) ==
    IF ~check_connection(conn)
    THEN Effect(conn, lv, <<>>, NoConnectionError)
    ELSE IF closeExc # NoError
    THEN Effect(conn, lv, <<CloseCall(conn, closeExc)>>, closeExc)
    ELSE Effect(conn, lv \ {conn},
                << CloseCall(conn, NoError),
                   Call("gc.collect", NoConn, <<>>, NoError, <<>>),
                   Call("print", NoConn, <<"connection closed">>, NoError, <<>>) >>,
                NoError)

close_connection(conn, lv, closeExc) ==
    IF ~check_connection(conn)
    THEN Effect(conn, lv, <<>>, NoConnectionError)
    ELSE IF closeExc # NoError
    THEN \* self.connection.close() raised: del self.connection is not reached
         Effect(conn, lv, <<CloseCall(conn, closeExc)>>, closeExc)
    ELSE Effect(NoConn, lv \ {conn},
                << CloseCall(conn, NoError),
                   Call("gc.collect", NoConn, <<>>, NoError, <<>>),
                   Call("print", NoConn, <<"connection closed">>, NoError, <<>>) >>,
                NoError)

(* --------------------------- open_connection --------------------------- *)

ConnectArgs(cfg) == <<cfg.database, cfg.user, cfg.password, cfg.host, cfg.port>>

\* an open_connection that overwrites the held connection without closing it
close_if_open_skipped(conn, lv, closeExc) == Effect(conn, lv, <<>>, NoError)

\* the implicit close of the connection already held
close_if_open(conn, lv, closeExc) ==
    IF hasattr_connection(conn)
    THEN close_connection(conn, lv, closeExc)
    ELSE Effect(conn, lv, <<>>, NoError)

Opened(conn, cfg, lv, n, tr, err) ==
    [connection |-> conn, config |-> cfg, live |-> lv, connects |-> n, trace |-> tr, error |-> err]

\* psycopg2.connect(...) and the assignment to self.connection
connect_and_store(closed, n, cfg, connectExc) ==
    IF connectExc # NoError
    THEN Opened(closed.connection, cfg, closed.live, n + 1,
                closed.trace \o <<Call("connect", NoConn, ConnectArgs(cfg), connectExc, <<>>)>>,
                connectExc)
    ELSE Opened(n + 1, cfg, closed.live \cup {n + 1}, n + 1,
                closed.trace \o <<Call("connect", n + 1, ConnectArgs(cfg), NoError, <<>>)>>,
                NoError)

\* an open_connection that connects first and closes the old connection
\* only once the new one is established
open_connection_connect_first(conn, cfg0, lv, n, cfg, closeExc, connectExc) ==
    IF connectExc # NoError
    THEN Opened(conn, cfg, lv, n + 1,
                <<Call("connect", NoConn, ConnectArgs(cfg), connectExc, <<>>)>>, connectExc)
    ELSE LET closed == close_if_open(conn, lv, NoError)
         IN  Opened(n + 1, cfg, closed.live \cup {n + 1}, n + 1,
                    <<Call("connect", n + 1, ConnectArgs(cfg), NoError, <<>>)>> \o closed.trace,
                    NoError)

\* an open_connection that stores the config fields only once connect
\* has returned
open_connection_store_after(conn, cfg0, lv, n, cfg, closeExc, connectExc) ==
    LET closed == close_if_open(conn, lv, closeExc)
    IN  IF closed.error # NoError
        THEN Opened(closed.connection, cfg0, closed.live, n, closed.trace, closed.error)
        ELSE IF connectExc # NoError
        THEN [connect_and_store(closed, n, cfg, connectExc) EXCEPT !.config = cfg0]
        ELSE connect_and_store(closed, n, cfg, connectExc)

open_connection(conn, cfg0, lv, n, cfg, closeExc, connectExc) ==
    LET closed == close_if_open(conn, lv, closeExc)
    IN  IF closed.error # NoError
        THEN Opened(closed.connection, cfg0, closed.live, n, closed.trace, closed.error)
        ELSE connect_and_store(closed, n, cfg, connectExc)

(* ---------------------------- execute_query ---------------------------- *)

\* what one call of execute_query did: the calls it made, the exception it
\* raised, what it returned, and the cursor it created as the call left it
Outcome(tr, err, res, cur) == [trace |-> tr, error |-> err, result |-> res, cursor |-> cur]

\* assert fetch in ["one", "all"]
valid_fetch(fetch) == fetch \in {"one", "all"}

\* a validation that lets both output modes through
valid_output_unchecked(return_dataframe, return_records) == TRUE

\* assert return_dataframe != True or return_records != True
valid_output(return_dataframe, return_records) ==
    return_dataframe # TRUE \/ return_records # TRUE

OutputError == AssertionError("return_dataframe and return_records cannot both be set to true")

\* fetchone() answers None when no row is left
None == [kind |-> "None", vals |-> <<>>]

\* list(row)
list_of(row) == [kind |-> "list", vals |-> row.vals]

\* the driver's fetchone() and fetchall() on a cursor with `rows` pending
fetchone(rows) == IF rows = <<>> THEN None ELSE rows[1]

fetchall(rows) == rows

FetchCall(fetch, conn, fetchExc, rows) ==
    IF fetch = "one"
    THEN Call("cursor.fetchone", conn, <<>>, fetchExc,
              IF fetchExc = NoError THEN <<fetchone(rows)>> ELSE <<>>)
    ELSE Call("cursor.fetchall", conn, <<>>, fetchExc,
              IF fetchExc = NoError THEN fetchall(rows) ELSE <<>>)

\* results = [results], without the test for None
one_result_unchecked(fetched) == PyList(<<fetched>>)

\* results = [] if results is None else [results]
one_result(fetched) == IF fetched = None THEN PyList(<<>>) ELSE PyList(<<fetched>>)

\* results = [list(row) for row in results]
all_results(fetched) == PyList([i \in 1..Len(fetched) |-> list_of(fetched[i])])

\* lines 120-125, from what the fetch call returned
fetch_results(fetch, ret) ==
    IF fetch = "one" THEN one_result(ret[1]) ELSE all_results(ret)

\* columns = [row[0] for row in cursor.description]
columns_of(description) == [i \in 1..Len(description) |-> description[i][1]]

\* pd.DataFrame(results, columns=columns)
DataFrame(results, columns) ==
    [kind |-> "DataFrame", columns |-> columns,
     items |-> [i \in 1..Len(results.items) |-> results.items[i].vals]]

Min(a, b) == IF a < b THEN a ELSE b

\* d[key] = value on a dict kept as its items in insertion order
dict_set(d, key, value) ==
    IF \E i \in 1..Len(d) : d[i][1] = key
    THEN [i \in 1..Len(d) |-> IF d[i][1] = key THEN <<key, value>> ELSE d[i]]
    ELSE Append(d, <<key, value>>)

\* {column: value for value, column in zip(row, columns)}, first n pairs
RECURSIVE dict_comp(_, _, _)
dict_comp(vals, columns, n) ==
    IF n = 0 THEN <<>>
    ELSE dict_set(dict_comp(vals, columns, n - 1), columns[n], vals[n])

\* {column: value for column, value in zip(row, columns)}: the pair unpacked
\* the wrong way round
record_of_swapped(row, columns) ==
    [kind |-> "dict", vals |-> dict_comp(columns, row.vals, Min(Len(row.vals), Len(columns)))]

record_of(row, columns) ==
    [kind |-> "dict", vals |-> dict_comp(row.vals, columns, Min(Len(row.vals), Len(columns)))]

\* [{...} for row in results]
records_of(results, columns) ==
    PyList([i \in 1..Len(results.items) |-> record_of(results.items[i], columns)])

\* lines 129-135
reshape(results, columns, return_dataframe, return_records) ==
    LET framed == IF return_dataframe THEN DataFrame(results, columns) ELSE results
    IN  IF return_records THEN records_of(framed, columns) ELSE framed

\* a read branch that closes the cursor before it looks at return_cursor
read_return_closing(conn, cursor, results, return_cursor) ==
    IF return_cursor
    THEN Outcome(<<Call("cursor.close", conn, <<>>, NoError, <<>>)>>, NoError,
                 ReturnPair(results, CloseCursor(cursor)), CloseCursor(cursor))
    ELSE Outcome(<<Call("cursor.close", conn, <<>>, NoError, <<>>)>>, NoError,
                 ReturnResults(results), CloseCursor(cursor))

\* lines 137-142
read_return(conn, cursor, results, return_cursor) ==
    IF return_cursor
    THEN Outcome(<<>>, NoError, ReturnPair(results, cursor), cursor)
    ELSE Outcome(<<Call("cursor.close", conn, <<>>, NoError, <<>>)>>, NoError,
                 ReturnResults(results), CloseCursor(cursor))

\* lines 120-142, given what the driver answers
read_branch(conn, cursor, fetch, return_dataframe, return_records, return_cursor, fetchExc, rows, description) ==
    LET fetched == FetchCall(fetch, conn, fetchExc, rows)
    IN  IF fetchExc # NoError
        THEN Outcome(<<fetched>>, fetchExc, Raised, cursor)
        ELSE LET results == fetch_results(fetch, fetched.ret)
                 columns == columns_of(description)
                 shaped  == reshape(results, columns, return_dataframe, return_records)
                 ret     == read_return(conn, cursor, shaped, return_cursor)
             IN  Outcome(<<fetched, Call("cursor.description", conn, <<>>, NoError, description)>>
                             \o ret.trace,
                         ret.error, ret.result, ret.cursor)

\* try commit, finally rollback: the rollback also follows a commit that
\* returned
try_commit_finally(conn, commitExc) ==
    IF commitExc = NoError
    THEN << Call("connection.commit", conn, <<>>, NoError, <<>>),
            Call("connection.rollback", conn, <<>>, NoError, <<>>) >>
    ELSE << Call("connection.commit", conn, <<>>, commitExc, <<>>),
            Call("connection.rollback", conn, <<>>, NoError, <<>>),
            Call("print", NoConn, <<commitExc.type>>, NoError, <<>>) >>

\* lines 107-111: try commit, except rollback and print
try_commit(conn, commitExc) ==
    IF commitExc = NoError
    THEN <<Call("connection.commit", conn, <<>>, NoError, <<>>)>>
    ELSE << Call("connection.commit", conn, <<>>, commitExc, <<>>),
            Call("connection.rollback", conn, <<>>, NoError, <<>>),
            Call("print", NoConn, <<commitExc.type>>, NoError, <<>>) >>

\* lines 113-118
commit_return(conn, cursor, return_cursor) ==
    IF return_cursor
    THEN Outcome(<<>>, NoError, ReturnCursor(cursor), cursor)
    ELSE Outcome(<<Call("cursor.close", conn, <<>>, NoError, <<>>)>>, NoError,
                 ReturnNone, CloseCursor(cursor))

\* a commit branch without the try/except around commit
commit_branch_unguarded(conn, cursor, return_cursor, commitExc) ==
    IF commitExc # NoError
    THEN Outcome(<<Call("connection.commit", conn, <<>>, commitExc, <<>>)>>, commitExc, Raised,
                 cursor)
    ELSE LET ret == commit_return(conn, cursor, return_cursor)
         IN  Outcome(try_commit(conn, NoError) \o ret.trace, ret.error, ret.result, ret.cursor)

\* lines 106-118
commit_branch(conn, cursor, return_cursor, commitExc) ==
    LET ret == commit_return(conn, cursor, return_cursor)
    IN  Outcome(try_commit(conn, commitExc) \o ret.trace, ret.error, ret.result, ret.cursor)

\* enter and exit called by hand, without try/finally: an exception of the
\* body skips the exit
with_connection_unprotected(conn, body) ==
    Outcome(<<Call("connection.__enter__", conn, <<>>, NoError, <<>>)>>
                \o body.trace
                \o IF body.error = NoError
                   THEN <<Call("connection.__exit__", conn, <<"">>, NoError, <<>>)>>
                   ELSE <<>>,
            body.error, body.result, body.cursor)

\* with contextlib.closing(self.connection): leaving the block closes the
\* connection
with_connection_closing(conn, body) ==
    Outcome(<<Call("connection.__enter__", conn, <<>>, NoError, <<>>)>>
                \o body.trace
                \o <<Call("connection.__exit__", conn, <<body.error.type>>, NoError, <<>>),
                     Call("connection.close", conn, <<>>, NoError, <<>>)>>,
            body.error, body.result, body.cursor)

\* with self.connection as connection: the context is entered, the body
\* runs, the context is left (with the exception the body raised, if any)
with_connection(conn, body) ==
    Outcome(<<Call("connection.__enter__", conn, <<>>, NoError, <<>>)>>
                \o body.trace
                \o <<Call("connection.__exit__", conn, <<body.error.type>>, NoError, <<>>)>>,
            body.error, body.result, body.cursor)

\* cursor = connection.cursor(); cursor.execute(query)
ExecuteCalls(conn, query, executeExc) ==
    << Call("connection.cursor", conn, <<>>, NoError, <<>>),
       Call("cursor.execute", conn, <<query>>, executeExc, <<>>) >>

Then(tr, o) == Outcome(tr \o o.trace, o.error, o.result, o.cursor)

\* an execute_query that rolls back itself when cursor.execute raises
execute_failed_rollback(conn, query, executeExc) ==
    with_connection(conn, Outcome(ExecuteCalls(conn, query, executeExc)
                                      \o <<Call("connection.rollback", conn, <<>>, NoError, <<>>)>>,
                                  executeExc, Raised, OpenCursor(conn)))

\* lines 102-105 when cursor.execute raises: the with statement is left
\* with the exception
execute_failed(conn, query, executeExc) ==
    with_connection(conn, Outcome(ExecuteCalls(conn, query, executeExc), executeExc, Raised,
                                  OpenCursor(conn)))

\* lines 102-118 when cursor.execute returns and commit is set
execute_commit(conn, query, return_cursor, commitExc) ==
    with_connection(conn, Then(ExecuteCalls(conn, query, NoError),
                               commit_branch(conn, OpenCursor(conn), return_cursor, commitExc)))

\* lines 102-142 when cursor.execute returns and commit is not set
execute_read(conn, query, fetch, return_dataframe, return_records, return_cursor, fetchExc, rows, description) ==
    with_connection(conn, Then(ExecuteCalls(conn, query, NoError),
                               read_branch(conn, OpenCursor(conn), fetch, return_dataframe,
                                           return_records, return_cursor, fetchExc, rows,
                                           description)))

\* the asserts of the body run before the decorator's assert
rejected_validation_first(conn, fetch, return_dataframe, return_records) ==
    IF ~valid_fetch(fetch) THEN AssertionError("")
    ELSE IF ~valid_output(return_dataframe, return_records) THEN OutputError
    ELSE IF ~check_connection(conn) THEN NoConnectionError
    ELSE NoError

\* lines 46 and 97-100: the exception raised before the with statement, or
\* NoError when the call goes on to it
rejected(conn, fetch, return_dataframe, return_records) ==
    IF ~check_connection(conn) THEN NoConnectionError
    ELSE IF ~valid_fetch(fetch) THEN AssertionError("")
    ELSE IF ~valid_output(return_dataframe, return_records) THEN OutputError
    ELSE NoError

(* -------------------------------- state ------------------------------- *)

VARIABLES connection, config, live, connects, trace, last

vars == <<connection, config, live, connects, trace, last>>

\* the most recent call: its arguments, the connection held when it was
\* made, the exception it raised, its result, the cursor it created, and
\* the rows its statement had pending on that cursor when it fetched
NoArgs ==
    [config |-> NoConfig, query |-> "", commit |-> FALSE, fetch |-> "",
     return_dataframe |-> FALSE, return_records |-> FALSE, return_cursor |-> FALSE]

LastCall(op, args, held, err, res, cur, rows) ==
    [op |-> op, args |-> args, held |-> held, error |-> err, result |-> res, cursor |-> cur,
     pending |-> rows]

\* __init__ sets no attribute
Init ==
    /\ connection = NoConn
    /\ config = NoConfig
    /\ live = {}
    /\ connects = 0
    /\ trace = <<>>
    /\ last = LastCall("__init__", NoArgs, NoConn, NoError, ReturnNone, NoCursor, <<>>)

OpenConnection ==
    /\ connects < MaxConnects
    /\ \E cfg \in Configs, closeExc \in DriverOutcomes, connectExc \in DriverOutcomes :
         LET o == open_connection(connection, config, live, connects, cfg, closeExc, connectExc)
         IN  /\ connection' = o.connection
             /\ config' = o.config
             /\ live' = o.live
             /\ connects' = o.connects
             /\ trace' = o.trace
             /\ last' = LastCall("open_connection", [NoArgs EXCEPT !.config = cfg], connection,
                                 o.error, IF o.error = NoError THEN ReturnNone ELSE Raised,
                                 NoCursor, <<>>)

CloseConnection ==
    \E closeExc \in DriverOutcomes :
      LET o == close_connection(connection, live, closeExc)
      IN  /\ connection' = o.connection
          /\ live' = o.live
          /\ trace' = o.trace
          /\ last' = LastCall("close_connection", NoArgs, connection, o.error,
                              IF o.error = NoError THEN ReturnNone ELSE Raised, NoCursor, <<>>)
          /\ UNCHANGED <<config, connects>>

\* the call returns or raises: its outcome becomes visible to the caller
Finish(args, o, rows) ==
    /\ trace' = o.trace
    /\ last' = LastCall("execute_query", args, connection, o.error, o.result, o.cursor, rows)
    /\ UNCHANGED <<connection, config, live, connects>>

ExecuteQuery ==
    \E query \in Queries, commit \in BOOLEAN, fetch \in FetchModes,
       return_dataframe \in BOOLEAN, return_records \in BOOLEAN, return_cursor \in BOOLEAN :
      LET args == [NoArgs EXCEPT !.query = query, !.commit = commit, !.fetch = fetch,
                                 !.return_dataframe = return_dataframe,
                                 !.return_records = return_records,
                                 !.return_cursor = return_cursor]
          err  == rejected(connection, fetch, return_dataframe, return_records)
      IN  IF err # NoError
          THEN Finish(args, Outcome(<<>>, err, Raised, NoCursor), <<>>)
          ELSE \E executeExc \in DriverOutcomes :
                 IF executeExc # NoError
                 THEN Finish(args, execute_failed(connection, query, executeExc), <<>>)
                 ELSE IF commit
                 THEN \E commitExc \in DriverOutcomes :
                        Finish(args, execute_commit(connection, query, return_cursor, commitExc),
                               <<>>)
                 ELSE \E fetchExc \in DriverOutcomes :
                        IF fetchExc # NoError
                        THEN Finish(args, execute_read(connection, query, fetch,
                                                       return_dataframe, return_records,
                                                       return_cursor, fetchExc, <<>>, <<>>),
                             <<>>)
                        ELSE \E description \in Descriptions :
                               \E rows \in ResultSets(description) :
                                 Finish(args, execute_read(connection, query, fetch,
                                                           return_dataframe, return_records,
                                                           return_cursor, NoError, rows,
                                                           description),
                                        rows)

Next == OpenConnection \/ CloseConnection \/ ExecuteQuery

Spec == Init /\ [][Next]_vars

(* ------------------------------- claims -------------------------------- *)

\* positions in the trace of the calls of one method
Calls(call) == {i \in 1..Len(trace) : trace[i].call = call}

Count(call) == Cardinality(Calls(call))

FailedCalls(call) == {i \in Calls(call) : trace[i].exc # NoError}

\* C1: at most one connection opened and not yet closed exists, it is the
\* one held, and an open_connection made while a connection is held closes
\* the held connection before the driver's connect is called.
C1_AtMostOneLive ==
    /\ Cardinality(live) <= 1
    /\ live \subseteq {connection}
    /\ (last.op = "open_connection" /\ last.held # NoConn) =>
         /\ trace # <<>>
         /\ trace[1].call = "connection.close"
         /\ trace[1].obj = last.held
         /\ \A i \in Calls("connect") :
              /\ i > 1
              /\ trace[1].exc = NoError
              /\ Calls("connection.close") = {1}

C1_Witness ==
    /\ last.op = "open_connection"
    /\ last.held # NoConn
    /\ last.error = NoError
    /\ connection # NoConn
    /\ connection # last.held
    /\ live = {connection}

\* C2: with no connection held, close_connection and execute_query raise
\* the precondition error, call nothing and change no field.
C2_Step ==
    (connection = NoConn /\ last'.op \in {"close_connection", "execute_query"}) =>
        /\ last'.error = NoConnectionError
        /\ last'.result = Raised
        /\ trace' = <<>>
        /\ UNCHANGED <<connection, config, live, connects>>

C2_NoConnectionRejected == [][C2_Step]_vars

C2_Witness ==
    /\ last.op = "close_connection"
    /\ last.held = NoConn
    /\ last.error = NoConnectionError
    /\ connects > 0
    /\ trace = <<>>

\* C3: when the driver's connect raises in open_connection, that exception
\* reaches the caller and no connection is held afterwards; a connection
\* held before the call has been closed and is not held again.
C3_FailedOpenHoldsNothing ==
    (last.op = "open_connection" /\ FailedCalls("connect") # {}) =>
        /\ \A i \in FailedCalls("connect") : last.error = trace[i].exc
        /\ last.result = Raised
        /\ connection = NoConn
        /\ live = {}
        /\ last.held # NoConn =>
             /\ trace[1] = CloseCall(last.held, NoError)
             /\ Calls("connect") = {Len(trace)}

C3_Witness ==
    /\ last.op = "open_connection"
    /\ FailedCalls("connect") # {}
    /\ last.held # NoConn
    /\ connection = NoConn

C5_NoCursorLeak ==
    (last.op = "execute_query" /\ ~last.args.return_cursor /\ last.cursor # NoCursor) =>
        /\ last.cursor.state = "closed"
        /\ Count("cursor.close") = 1

\* C6: a call with return_cursor set that returns hands back the cursor it
\* created, on which the component never called close: alone in the commit
\* branch, paired with the results in the read branch.
C6_ReturnedCursorOpen ==
    (last.op = "execute_query" /\ last.args.return_cursor /\ last.error = NoError) =>
        /\ Count("connection.cursor") = 1
        /\ \A i \in Calls("connection.cursor") : trace[i].obj = last.held
        /\ last.cursor = OpenCursor(last.held)
        /\ last.result.cursor = last.cursor
        /\ Count("cursor.close") = 0
        /\ last.result.shape = IF last.args.commit THEN "cursor" ELSE "pair"
        /\ last.args.commit => last.result.results = NoResults
        /\ ~last.args.commit => last.result.results # NoResults

C6_Witness ==
    /\ last.op = "execute_query"
    /\ last.args.return_cursor
    /\ ~last.args.commit
    /\ last.error = NoError
    /\ last.result.shape = "pair"
    /\ last.result.cursor.state = "open"
    /\ Len(last.result.results.items) = 2

\* the request asks for both output modes or for an unknown fetch mode
InvalidRequest(args) ==
    \/ args.return_dataframe /\ args.return_records
    \/ args.fetch \notin {"one", "all"}

\* C7: with a connection held, an invalid request raises the validation
\* error before any call is made on the driver: no cursor, no execute,
\* commit, rollback or context entry, and the held connection stays.
C7_ValidationBeforeDriver ==
    (last.op = "execute_query" /\ last.held # NoConn /\ InvalidRequest(last.args)) =>
        /\ last.error \in {AssertionError(""), OutputError}
        /\ last.result = Raised
        /\ trace = <<>>
        /\ last.cursor = NoCursor
        /\ connection = last.held
        /\ live = {last.held}

C7_Witness ==
    /\ last.op = "execute_query"
    /\ last.held # NoConn
    /\ last.args.return_dataframe
    /\ last.args.return_records
    /\ last.args.fetch = "all"
    /\ last.args.commit
    /\ last.error = OutputError
    /\ trace = <<>>

\* C8: when cursor.execute raises, the caller gets that exception, execute
\* was called once, and the call makes no commit and no rollback; in any
\* call a rollback comes only right after a commit that raised.
C8_RollbackOnlyAfterFailedCommit ==
    /\ \A i \in FailedCalls("cursor.execute") :
         /\ last.error = trace[i].exc
         /\ last.result = Raised
         /\ Count("cursor.execute") = 1
         /\ Count("connection.commit") = 0
         /\ Count("connection.rollback") = 0
    /\ \A i \in Calls("connection.rollback") :
         /\ i > 1
         /\ trace[i - 1].call = "connection.commit"
         /\ trace[i - 1].exc # NoError

C8_Witness ==
    /\ last.op = "execute_query"
    /\ last.args.commit
    /\ FailedCalls("cursor.execute") # {}
    /\ last.error \in {DriverError(e) : e \in DriverErrors}

\* the rows the call fetched from the statement's pending rows
Fetched ==
    IF last.args.fetch = "one"
    THEN IF last.pending = <<>> THEN <<>> ELSE <<last.pending[1]>>
    ELSE last.pending

ColumnsRead ==
    LET i == CHOOSE i \in Calls("cursor.description") : TRUE
    IN  [j \in 1..Len(trace[i].ret) |-> trace[i].ret[j][1]]

RecordsReturned ==
    /\ last.op = "execute_query"
    /\ ~last.args.commit
    /\ last.args.return_records
    /\ last.error = NoError

\* C10 as claimed: record mode returns one mapping per fetched row, in fetch
\* order, the i-th with one key per column, in column order, the j-th
\* carrying the j-th value of the i-th row.
C10_RecordsPerColumn ==
    RecordsReturned =>
        /\ last.result.results.kind = "list"
        /\ Len(last.result.results.items) = Len(Fetched)
        /\ \A i \in 1..Len(Fetched) :
             /\ last.result.results.items[i].kind = "dict"
             /\ last.result.results.items[i].vals =
                    [j \in 1..Len(ColumnsRead) |-> <<ColumnsRead[j], Fetched[i].vals[j]>>]

\* the columns whose name no earlier column has, and the last column of a name
FirstColumns(columns) ==
    {j \in 1..Len(columns) : \A k \in 1..(j - 1) : columns[k] # columns[j]}

NthOf(J, p) == CHOOSE j \in J : Cardinality({k \in J : k <= j}) = p

LastColumn(columns, name) ==
    CHOOSE j \in 1..Len(columns) :
        /\ columns[j] = name
        /\ \A k \in (j + 1)..Len(columns) : columns[k] # name

\* C10 amended: record mode returns one mapping per fetched row, in fetch
\* order, the i-th with one key per distinct column name, in the order of
\* the names' first columns, each name carrying the row's value in the last
\* column of that name.
C10_RecordsPerName ==
    RecordsReturned =>
        /\ last.result.results.kind = "list"
        /\ Len(last.result.results.items) = Len(Fetched)
        /\ \A i \in 1..Len(Fetched) :
             LET d == last.result.results.items[i].vals
                 J == FirstColumns(ColumnsRead)
             IN  /\ last.result.results.items[i].kind = "dict"
                 /\ Len(d) = Cardinality(J)
                 /\ \A p \in 1..Len(d) :
                      /\ d[p][1] = ColumnsRead[NthOf(J, p)]
                      /\ d[p][2] = Fetched[i].vals[LastColumn(ColumnsRead, d[p][1])]

C10_Witness ==
    /\ RecordsReturned
    /\ last.args.fetch = "all"
    /\ ColumnsRead = <<"id", "name">>
    /\ Len(Fetched) = 2
    /\ last.result.results.items[1].vals = << <<"id", "a">>, <<"name", "b">> >>
    /\ last.result.results.items[2].vals = << <<"id", "b">>, <<"name", "a">> >>

\* the most recent call was an execute_query that got past the asserts
Entered ==
    /\ last.op = "execute_query"
    /\ last.held # NoConn
    /\ ~InvalidRequest(last.args)

\* C11: a call that passes the precondition and the validation enters the
\* connection's context once, as its first call, and leaves it once, as
\* its last call: without an exception on a normal return, after the
\* body's commit, fetch and cursor.close, and with the exception when
\* cursor.execute raised, which still reaches the caller.
C11_ContextEnteredAndLeftOnce ==
    Entered =>
        /\ Calls("connection.__enter__") = {1}
        /\ Calls("connection.__exit__") = {Len(trace)}
        /\ Len(trace) > 1
        /\ trace[1].obj = last.held
        /\ trace[Len(trace)].obj = last.held
        /\ trace[Len(trace)].arg = <<last.error.type>>
        /\ last.error = NoError => last.result # Raised
        /\ \A i \in FailedCalls("cursor.execute") :
             /\ last.error = trace[i].exc
             /\ last.result = Raised
             /\ i + 1 = Len(trace)

C11_Witness ==
    /\ Entered
    /\ FailedCalls("cursor.execute") # {}
    /\ trace[Len(trace)].call = "connection.__exit__"
    /\ trace[Len(trace)].arg # <<"">>
    /\ last.error # NoError

\* the most recent call was a close_connection made with a connection held
ClosedHeld == last.op = "close_connection" /\ last.held # NoConn

\* C12 as claimed: a close_connection made with a connection held calls
\* the driver's close on that handle once and leaves no connection held.
C12_CloseClears ==
    ClosedHeld =>
        /\ Calls("connection.close") = {1}
        /\ trace[1].obj = last.held
        /\ connection = NoConn
        /\ live = {}

NoCloseCall(tr) == \A i \in 1..Len(tr) : tr[i].call # "connection.close"

\* what a close_connection made with a connection held leaves behind
C12_Closed ==
    ClosedHeld =>
        /\ Calls("connection.close") = {1}
        /\ trace[1].obj = last.held
        /\ last.error = trace[1].exc
        /\ IF last.error = NoError
           THEN connection = NoConn /\ live = {}
           ELSE connection = last.held /\ live = {last.held} /\ Len(trace) = 1

\* the call that follows a close_connection whose driver close returned
C12_Step ==
    /\ C12_Closed'
    /\ (ClosedHeld /\ last.error = NoError) =>
         /\ last'.op \in {"close_connection", "execute_query"} =>
              last'.error = NoConnectionError /\ trace' = <<>>
         /\ last'.op = "open_connection" =>
              NoCloseCall(trace') /\ last'.held = NoConn

\* C12 amended: a close_connection made with a connection held calls the
\* driver's close on that handle once; when that close returns, the stored
\* handle is cleared, a close_connection or execute_query that follows
\* raises the precondition error and an open_connection that follows makes
\* no close call; when that close raises, the exception reaches the caller
\* and the handle stays held.
C12_ReturnedCloseClears == [][C12_Step]_vars

C12_Witness ==
    /\ ClosedHeld
    /\ last.error = NoError
    /\ Calls("connection.close") = {1}
    /\ trace[1].obj = last.held
    /\ connection = NoConn
    /\ live = {}

\* the names of the calls of the most recent operation, in order
CallNames == [i \in 1..Len(trace) |-> trace[i].call]

\* the most recent call went into the commit branch
Committing ==
    /\ Entered
    /\ last.args.commit
    /\ FailedCalls("cursor.execute") = {}

C14_Step ==
    last'.op = "execute_query" =>
        /\ UNCHANGED <<connection, config, live, connects>>
        /\ last'.held = connection
        /\ \A i \in 1..Len(trace') : trace'[i].call \notin {"connection.close", "connect"}

C14_ExecuteKeepsConnection == [][C14_Step]_vars

C14_Witness ==
    /\ Committing
    /\ Count("connection.rollback") = 1
    /\ connection = last.held
    /\ live = {connection}
    /\ config \in Configs

\* C15: with no connection held, an invalid request fails on the
\* precondition assert, not on a validation assert, and calls nothing.
C15_PreconditionFirst ==
    (last.op = "execute_query" /\ last.held = NoConn /\ InvalidRequest(last.args)) =>
        /\ last.error = NoConnectionError
        /\ last.error.msg = "there is no open connection."
        /\ last.error \notin {AssertionError(""), OutputError}
        /\ trace = <<>>

C15_Witness ==
    /\ last.op = "execute_query"
    /\ last.held = NoConn
    /\ last.args.fetch = "many"
    /\ last.args.return_dataframe
    /\ last.args.return_records
    /\ last.error = NoConnectionError

\* the implicit close of an open_connection raised
CloseFailed(tr) ==
    \E i \in 1..Len(tr) : tr[i].call = "connection.close" /\ tr[i].exc # NoError

\* C16: an open_connection whose implicit close did not raise stores its
\* arguments as the config, whether connect then returns or raises; one
\* whose implicit close raised, a close_connection and an execute_query
\* leave the stored config as it was.
C16_Step ==
    /\ (last'.op = "open_connection" /\ ~CloseFailed(trace')) =>
         /\ config' = last'.args.config
         /\ last'.error # NoError => connection' = NoConn
    /\ (last'.op = "open_connection" /\ CloseFailed(trace')) => config' = config
    /\ last'.op \in {"close_connection", "execute_query"} => config' = config

C16_ConfigOfLastOpen == [][C16_Step]_vars

C16_Witness ==
    /\ last.op = "open_connection"
    /\ FailedCalls("connect") # {}
    /\ last.held # NoConn
    /\ connection = NoConn
    /\ config = last.args.config
    /\ trace[Len(trace)].arg # ConnectArgs(NoConfig)

====
